---- MODULE Spec2Model ----
(***************************************************************************)
(* ActionExecutor (src/agentloop/actions/executor.py).                     *)
(*                                                                         *)
(* One action of the model is one complete call of                         *)
(* ActionExecutor.execute(action_type, input_data): the dispatch, the      *)
(* handler, and every external effect of the handler (the HTTP request,    *)
(* the child process, the write into the sandbox directory).  The state    *)
(* is the filesystem, the children still running, and a record of the      *)
(* last call: what was passed, what the outside world answered and how     *)
(* the call ended.                                                         *)
(*                                                                         *)
(* Text is a sequence of characters, a path is a sequence of components,   *)
(* an error message is a sequence of the pieces the f-string joins.        *)
(***************************************************************************)
EXTENDS Integers, Sequences, FiniteSets, TLC

VARIABLES fs, alive, call, outcome

vars == <<fs, alive, call, outcome>>

(***************************************************************************)
(* Bounds of the model.                                                    *)
(***************************************************************************)
MaxSegs == 2
MaxOut == 1
MaxBlocks == 3
MaxResults == 2

SeqsUpTo(S, n) == UNION {[1..k -> S] : k \in 0..n}

(***************************************************************************)
(* Text.                                                                   *)
(***************************************************************************)
White == {" ", "\n"}
Chars == White \cup {"x"}

RECURSIVE lstrip(_)
lstrip(s) ==
    IF s /= <<>> /\ Head(s) \in White THEN lstrip(Tail(s)) ELSE s

RECURSIVE rstrip(_)
rstrip(s) ==
    IF s /= <<>> /\ s[Len(s)] \in White THEN rstrip(SubSeq(s, 1, Len(s) - 1)) ELSE s

strip(s) == rstrip(lstrip(s))

\* the text of f"\n[stderr]: {stderr}" before the interpolated value
StderrTag == <<"\n", "[stderr]:", " ">>

NoOutputText == <<"Code executed successfully (no output)">>

\* str(e) of a fault raised by a collaborator; a fault may carry no message
ExcTexts == {"", "boom"}

\* a message is non-empty when one of the joined pieces is
NonEmptyMsg(m) == \E i \in 1..Len(m) : m[i] /= ""

(***************************************************************************)
(* Paths and the filesystem.                                               *)
(***************************************************************************)
Cwd == <<"cwd">>
output_dir == <<"cwd", "out">>

Segs == {"", ".", "..", "a", "d"}
Filenames == SeqsUpTo(Segs, MaxSegs)

\* a filename string split at "/": "/etc/x" is <<"", "etc", "x">>
IsAbsolute(segs) == Len(segs) >= 2 /\ segs[1] = ""

\* pathlib drops empty and "." components when it parses a path
Parts(segs) == SelectSeq(segs, LAMBDA s : s \notin {"", "."})

PathName(segs) ==
    IF Parts(segs) = <<>> THEN "" ELSE Parts(segs)[Len(Parts(segs))]

\* base / name, lexically
JoinName(base, name) == IF name = "" THEN base ELSE Append(base, name)

\* the file the operating system opens for a lexical path: ".." steps up
RECURSIVE Resolve(_)
Resolve(p) ==
    IF p = <<>> THEN <<>>
    ELSE LET r == Resolve(SubSeq(p, 1, Len(p) - 1))
         IN  IF p[Len(p)] = ".."
             THEN (IF r = <<>> THEN <<>> ELSE SubSeq(r, 1, Len(r) - 1))
             ELSE Append(r, p[Len(p)])

IsDir(f, p) == p \in DOMAIN f /\ f[p].type = "dir"

Dir == [type |-> "dir", content |-> <<>>]
File(c) == [type |-> "file", content |-> c]

PutFile(f, p, c) == [q \in DOMAIN f \cup {p} |-> IF q = p THEN File(c) ELSE f[q]]

Codepoints == {"x", "\\u00e9"}
Contents == {<<c>> : c \in Codepoints}

Utf8Width(ch) == IF ch = "x" THEN 1 ELSE 2

RECURSIVE Utf8Len(_)
Utf8Len(c) == IF c = <<>> THEN 0 ELSE Utf8Width(Head(c)) + Utf8Len(Tail(c))

(***************************************************************************)
(* Action kinds.  Beside the four members of ActionType a caller can pass  *)
(* any Python value: a value that is no member, or one that cannot be      *)
(* hashed (a list).                                                        *)
(***************************************************************************)
ActionType == {"SEARCH_WEB", "RUN_CODE", "WRITE_FILE", "FINISH"}
UnknownKinds == {"DELETE_FILE", "[RUN_CODE]"}
Hashable(k) == k /= "[RUN_CODE]"

(***************************************************************************)
(* core.schemas is imported by the executor (lines 15-22) and is not part  *)
(* of the source at hand.  What the executor needs of it is taken from     *)
(* the data model of the specification: an input structure is built from   *)
(* the raw mapping and its construction fails with a validation error      *)
(* when a required field is missing or a field has the wrong shape; an     *)
(* ActionResult is the envelope (action, success, output, error,           *)
(* metadata) whose error and output default to None.                       *)
(***************************************************************************)
Defects == {"none", "missing", "wrong_shape"}

Validates(input_data) == input_data.defect = "none"

ValidationText == "validation error"

NoError == [present |-> FALSE, msg |-> <<>>]
Error(msg) == [present |-> TRUE, msg |-> msg]

NoOutput == [tag |-> "none", val |-> <<>>]
Text(s) == [tag |-> "text", val |-> s]
Records(l) == [tag |-> "list", val |-> l]

NoMetadata == [none |-> TRUE]

ActionResult(action, success, output, error, metadata) ==
    [action |-> action, success |-> success, output |-> output,
     error |-> error, metadata |-> metadata]

\* ActionResult(action=..., success=False, error=...)
Failure(action, msg) == ActionResult(action, FALSE, NoOutput, Error(msg), NoMetadata)

\* The action field of the envelope is declared as ActionType.  Whether the
\* envelope can be built around a value that is no member is decided in
\* core.schemas: a strict schema raises a validation error, a lenient one
\* stores the value.
ActionResultBuilds(action, schema) == action \in ActionType \/ schema = "lenient"

(***************************************************************************)
(* How one call ends and what it did on the way.                           *)
(*   ret       "returned" (result is the ActionResult) or "raised"         *)
(*   requested an HTTP request was issued                                  *)
(*   child     "none", or the fate of the child process that was started:  *)
(*             "exited", "killed", "running"                               *)
(*   fs        the filesystem after the call                               *)
(***************************************************************************)
NoResult == [none |-> TRUE]

Returned(result, f, requested, child) ==
    [ret |-> "returned", result |-> result, exc |-> "", fs |-> f,
     requested |-> requested, child |-> child]

Raised(exc, f, requested, child) ==
    [ret |-> "raised", result |-> NoResult, exc |-> exc, fs |-> f,
     requested |-> requested, child |-> child]

(***************************************************************************)
(* SEARCH_WEB.  The provider's page is the sequence of its result blocks;  *)
(* a block has a title link or not, and a snippet or not.  The block's     *)
(* position stands for the text of its title and its href.                 *)
(***************************************************************************)
Block ==
    {[title |-> TRUE, snippet |-> TRUE], [title |-> TRUE, snippet |-> FALSE],
     [title |-> FALSE, snippet |-> FALSE]}
Pages == SeqsUpTo(Block, MaxBlocks)

Min(a, b) == IF a < b THEN a ELSE b

\* soup.find_all("div", class_="result")[:num_results]
Examined(page, num_results) == SubSeq(page, 1, Min(num_results, Len(page)))

Extracted(page, i) ==
    [title |-> i, url |-> i, snippet |-> IF page[i].snippet THEN i ELSE 0]

\* the loop of lines 96-105 over the positions of the examined blocks
RECURSIVE ExtractFrom(_, _, _)
ExtractFrom(page, i, last) ==
    IF i > last THEN <<>>
    ELSE (IF page[i].title THEN <<Extracted(page, i)>> ELSE <<>>)
         \o ExtractFrom(page, i + 1, last)

ParseResults(page, num_results) ==
    ExtractFrom(page, 1, Len(Examined(page, num_results)))

\* lines 107-119, with the check of line 107 left out
AnswerUnchecked(input_data, results, f) ==
    Returned(ActionResult("SEARCH_WEB", TRUE, Records(results), NoError,
                          [query |-> input_data.query, num_results |-> Len(results)]),
             f, TRUE, "none")

\* lines 107-119
Answer(input_data, results, f) ==
    IF results = <<>>
    THEN Returned(Failure("SEARCH_WEB", <<"No search results found">>), f, TRUE, "none")
    ELSE Returned(ActionResult("SEARCH_WEB", TRUE, Records(results), NoError,
                               [query |-> input_data.query,
                                num_results |-> Len(results)]),
                  f, TRUE, "none")

search_web(input_data, env, f) ==
    IF ~Validates(input_data)
    THEN Returned(Failure("SEARCH_WEB", <<"Search failed: ", ValidationText>>),
                  f, FALSE, "none")
    ELSE IF env.http /= "ok"
    THEN \* requests.post or raise_for_status raised
         Returned(Failure("SEARCH_WEB", <<"Search failed: ", env.exc>>),
                  f, TRUE, "none")
    ELSE Answer(input_data, ParseResults(env.page, input_data.num_results), f)

(***************************************************************************)
(* RUN_CODE.  subprocess.run either cannot start the child (OSError),      *)
(* or the child runs past the timeout, is killed and waited for, and       *)
(* TimeoutExpired is raised, or the child exits and its captured stdout,   *)
(* stderr and return code come back.  What the child itself does to the    *)
(* machine is the child's program, not the executor's, and is not          *)
(* modelled.                                                               *)
(***************************************************************************)
Timeouts == {1, 2}
ReturnCodes == {0, 1, -9}
Streams == SeqsUpTo(Chars, MaxOut)

\* lines 147-149
Combined(stdout, stderr) ==
    IF stderr /= <<>> THEN stdout \o StderrTag \o stderr ELSE stdout

\* line 156
ReportedOutput(output) == IF output /= <<>> THEN strip(output) ELSE NoOutputText

\* lines 146-162, with error left at its default
CompletedWithoutError(env, f) ==
    LET output == Combined(env.stdout, env.stderr)
    IN  Returned(ActionResult("RUN_CODE", env.returncode = 0, Text(ReportedOutput(output)),
                              NoError,
                              [exit_code |-> env.returncode, execution_time |-> "N/A"]),
                 f, FALSE, "exited")

\* lines 146-162
Completed(env, f) ==
    LET output == Combined(env.stdout, env.stderr)
        success == env.returncode = 0
    IN  Returned(ActionResult("RUN_CODE", success, Text(ReportedOutput(output)),
                              IF success THEN NoError
                              ELSE Error(<<"Exit code ", ToString(env.returncode)>>),
                              [exit_code |-> env.returncode, execution_time |-> "N/A"]),
                 f, FALSE, "exited")

\* lines 164-169; code_input is bound once RunCodeInput(**input_data) returned
TimedOut(input_data, bound, f) ==
    IF bound
    THEN Returned(Failure("RUN_CODE", <<"Code execution timed out after ",
                                        ToString(input_data.timeout), " seconds">>),
                  f, FALSE, "killed")
    ELSE Raised("UnboundLocalError", f, FALSE, "killed")

\* the child is started before the mapping is validated
run_code_unvalidated(input_data, env, f) ==
    IF env.proc = "oserror"
    THEN Returned(Failure("RUN_CODE", <<"Execution failed: ", env.exc>>),
                  f, FALSE, "none")
    ELSE IF env.proc = "timeout"
    THEN TimedOut(input_data, Validates(input_data), f)
    ELSE IF ~Validates(input_data)
    THEN Returned(Failure("RUN_CODE", <<"Execution failed: ", ValidationText>>),
                  f, FALSE, "exited")
    ELSE Completed(env, f)

run_code(input_data, env, f) ==
    IF ~Validates(input_data)
    THEN Returned(Failure("RUN_CODE", <<"Execution failed: ", ValidationText>>),
                  f, FALSE, "none")
    ELSE IF env.proc = "oserror"
    THEN Returned(Failure("RUN_CODE", <<"Execution failed: ", env.exc>>),
                  f, FALSE, "none")
    ELSE IF env.proc = "timeout"
    THEN TimedOut(input_data, TRUE, f)
    ELSE Completed(env, f)

(***************************************************************************)
(* WRITE_FILE.  Path.write_text opens the file for writing, which creates  *)
(* or truncates it, and then writes the text.  The open fails on a         *)
(* directory, under a missing directory, or when the system refuses it;    *)
(* the write can fail after the open (disk full, text that cannot be       *)
(* encoded), which leaves the file empty.                                  *)
(***************************************************************************)
WriteFaults == {"none", "open", "write"}

\* base / other, lexically: an absolute path replaces the base
JoinPath(base, segs) == IF IsAbsolute(segs) THEN Parts(segs) ELSE base \o Parts(segs)

\* the filename joined as it is given, without taking its name
UnsafePath(filename) == JoinPath(output_dir, filename)

\* lines 183-184
SafePath(filename) == JoinName(output_dir, PathName(filename))

CanOpen(f, target, env) ==
    /\ target /= <<>>
    /\ ~IsDir(f, target)
    /\ IsDir(f, SubSeq(target, 1, Len(target) - 1))
    /\ env.fault /= "open"

\* lines 183-197 and the faults of write_text
Write(input_data, env, f) ==
    LET filepath == SafePath(input_data.filename)
        target == Resolve(filepath)
    IN  IF ~CanOpen(f, target, env)
        THEN Returned(Failure("WRITE_FILE", <<"File write failed: ", env.exc>>),
                      f, FALSE, "none")
        ELSE IF env.fault = "write"
        THEN Returned(Failure("WRITE_FILE", <<"File write failed: ", env.exc>>),
                      PutFile(f, target, <<>>), FALSE, "none")
        ELSE Returned(ActionResult("WRITE_FILE", TRUE,
                                   Text(<<"File written successfully: ", filepath>>),
                                   NoError,
                                   [filepath |-> filepath,
                                    size_bytes |-> Utf8Len(input_data.content)]),
                      PutFile(f, target, input_data.content), FALSE, "none")

\* the fields are read from the raw mapping and the file is written before
\* the mapping is validated
write_file_unvalidated(input_data, env, f) ==
    LET w == Write(input_data, env, f)
    IN  IF ~Validates(input_data)
        THEN Returned(Failure("WRITE_FILE", <<"File write failed: ", ValidationText>>),
                      w.fs, FALSE, "none")
        ELSE w

write_file(input_data, env, f) ==
    IF ~Validates(input_data)
    THEN Returned(Failure("WRITE_FILE", <<"File write failed: ", ValidationText>>),
                  f, FALSE, "none")
    ELSE Write(input_data, env, f)

(***************************************************************************)
(* FINISH.                                                                 *)
(***************************************************************************)
finish(input_data, env, f) ==
    IF ~Validates(input_data)
    THEN Returned(Failure("FINISH", <<"Finish action failed: ", ValidationText>>),
                  f, FALSE, "none")
    ELSE Returned(ActionResult("FINISH", TRUE,
                               [tag |-> "summary",
                                val |-> [summary |-> input_data.summary,
                                         artifacts |-> input_data.artifacts]],
                               NoError, [completed |-> TRUE]),
                  f, FALSE, "none")

(***************************************************************************)
(* The dispatcher.                                                         *)
(***************************************************************************)
handler(action_type, input_data, env, f) ==
    CASE action_type = "SEARCH_WEB" -> search_web(input_data, env, f)
      [] action_type = "RUN_CODE" -> run_code(input_data, env, f)
      [] action_type = "WRITE_FILE" -> write_file(input_data, env, f)
      [] action_type = "FINISH" -> finish(input_data, env, f)

\* lines 56-62: the lookup and the result for a kind without a handler are
\* outside the try block
NoHandler(action_type, env, f) ==
    IF ActionResultBuilds(action_type, env.schema)
    THEN Returned(Failure(action_type, <<"Unknown action type: ", action_type>>),
                  f, FALSE, "none")
    ELSE Raised("ValidationError", f, FALSE, "none")

\* lines 64-71
Guarded(action_type, h) ==
    IF h.ret = "raised"
    THEN Returned(Failure(action_type, <<"Execution error: ", h.exc>>),
                  h.fs, h.requested, h.child)
    ELSE h

execute(action_type, input_data, env, f) ==
    IF ~Hashable(action_type)
    THEN Raised("TypeError", f, FALSE, "none")
    ELSE IF action_type \notin ActionType
    THEN NoHandler(action_type, env, f)
    ELSE Guarded(action_type, handler(action_type, input_data, env, f))

(***************************************************************************)
(* What a caller can pass and what the outside world can answer.           *)
(***************************************************************************)
SearchInputs ==
    [defect : {"none"}, query : {"q"}, num_results : 1..MaxResults]
    \cup [defect : Defects \ {"none"}, query : {"q"}, num_results : {1}]

SearchEnvs ==
    [http : {"ok"}, page : Pages, exc : {""}]
    \cup [http : {"unreachable", "status"}, page : {<<>>}, exc : ExcTexts]

RunInputs ==
    [defect : {"none"}, code : {"c"}, timeout : Timeouts]
    \cup [defect : Defects \ {"none"}, code : {"c"}, timeout : {1}]

RunEnvs ==
    [proc : {"completed"}, stdout : Streams, stderr : Streams,
     returncode : ReturnCodes, exc : {""}]
    \cup [proc : {"timeout"}, stdout : {<<>>}, stderr : {<<>>},
          returncode : {0}, exc : {""}]
    \cup [proc : {"oserror"}, stdout : {<<>>}, stderr : {<<>>},
          returncode : {0}, exc : ExcTexts]

WriteInputs ==
    [defect : {"none"}, filename : Filenames, content : Contents]
    \cup [defect : Defects \ {"none"}, filename : {<<"a">>}, content : {<<"x">>}]

WriteEnvs == [fault : WriteFaults, exc : ExcTexts]

FinishInputs ==
    [defect : {"none"}, summary : {"s"}, artifacts : SeqsUpTo({"f1", "f2"}, 2)]
    \cup [defect : Defects \ {"none"}, summary : {"s"}, artifacts : {<<>>}]

UnknownEnvs == [schema : {"strict", "lenient"}]

NoCall == [action_type |-> "none", input_data |-> [defect |-> "none"],
           env |-> [none |-> TRUE]]

Report(o) ==
    [ret |-> o.ret, result |-> o.result, exc |-> o.exc,
     requested |-> o.requested, child |-> o.child]

NoOutcome == [ret |-> "none", result |-> NoResult, exc |-> "",
              requested |-> FALSE, child |-> "none"]

\* after __init__: the sandbox directory exists; it may have existed before,
\* here with or without a subdirectory d
Init ==
    /\ \E sub \in BOOLEAN :
         fs = [p \in {<<>>, Cwd, output_dir}
                     \cup (IF sub THEN {Append(output_dir, "d")} ELSE {}) |-> Dir]
    /\ alive = 0
    /\ call = NoCall
    /\ outcome = NoOutcome

\* One call of execute, from the lookup to the return or the raise.
Call(action_type, input_data, env) ==
    LET o == execute(action_type, input_data, env, fs)
    IN  /\ call' = [action_type |-> action_type, input_data |-> input_data, env |-> env]
        /\ outcome' = Report(o)
        /\ fs' = o.fs
        /\ alive' = alive + (IF o.child = "running" THEN 1 ELSE 0)

\* calls do not overlap: execute is synchronous and single-threaded
Idle == call = NoCall

SearchWeb ==
    /\ Idle
    /\ \E i \in SearchInputs, e \in SearchEnvs : Call("SEARCH_WEB", i, e)

RunCode ==
    /\ Idle
    /\ \E i \in RunInputs, e \in RunEnvs : Call("RUN_CODE", i, e)

WriteFile ==
    /\ Idle
    /\ \E i \in WriteInputs, e \in WriteEnvs : Call("WRITE_FILE", i, e)

Finish ==
    /\ Idle
    /\ \E i \in FinishInputs : Call("FINISH", i, [none |-> TRUE])

UnknownAction ==
    /\ Idle
    /\ \E k \in UnknownKinds, i \in FinishInputs, e \in UnknownEnvs : Call(k, i, e)

\* The caller has the result (or the fault); the executor keeps nothing of
\* the call but what is on disk, and the next call can be made.
Discard ==
    /\ ~Idle
    /\ call' = NoCall
    /\ outcome' = NoOutcome
    /\ UNCHANGED <<fs, alive>>

Next == SearchWeb \/ RunCode \/ WriteFile \/ Finish \/ UnknownAction \/ Discard

Spec == Init /\ [][Next]_vars

(***************************************************************************)
(* Properties.                                                             *)
(***************************************************************************)
Result == outcome.result

\* a step that is one call of execute with the given kind
CallOf(kinds) == Idle /\ call'.action_type \in kinds

IsFailure(o) ==
    /\ o.ret = "returned"
    /\ ~o.result.success
    /\ o.result.error.present
    /\ NonEmptyMsg(o.result.error.msg)

NoEffect(o) == ~o.requested /\ o.child = "none"

\* C1: every call of execute, whatever the kind and the mapping and whatever
\* fault validation or a collaborator raises, ends by returning an
\* ActionResult; none ends by raising.
C1_NoFaultEscapes == ~Idle => outcome.ret = "returned"

\* C2: in every ActionResult that execute returns, the error is present and
\* non-empty exactly when success is false.
C2_ErrorIffFailure ==
    outcome.ret = "returned" =>
        /\ Result.success => ~Result.error.present
        /\ ~Result.success => Result.error.present /\ NonEmptyMsg(Result.error.msg)

\* a handler failed on a fault that carries no message: the error is still
\* not empty
C2_Witness ==
    /\ outcome.ret = "returned"
    /\ ~Result.success
    /\ Len(Result.error.msg) = 2
    /\ Result.error.msg[2] = ""

\* C3: a call with a kind outside the four known ones returns success=false
\* with an error that contains the kind, starts no request and no child,
\* and leaves the filesystem as it was.
C3_UnknownKindFails ==
    [][CallOf(UnknownKinds) =>
          /\ IsFailure(outcome')
          /\ \E i \in 1..Len(outcome'.result.error.msg) :
                outcome'.result.error.msg[i] = call'.action_type
          /\ NoEffect(outcome')
          /\ fs' = fs]_vars

\* C4: a call with a known kind and a mapping that misses a required field
\* or has a field of the wrong shape returns success=false with a non-empty
\* error; it writes no file, starts no child and issues no request.
C4_ValidationFirst ==
    [][CallOf(ActionType) /\ ~Validates(call'.input_data) =>
          /\ IsFailure(outcome')
          /\ NoEffect(outcome')
          /\ fs' = fs]_vars

\* a WRITE_FILE whose mapping fails validation, in a world where the write
\* would have gone through
C4_Witness ==
    /\ call.action_type = "WRITE_FILE"
    /\ ~Validates(call.input_data)
    /\ call.env.fault = "none"
    /\ outcome.ret = "returned"

InSandbox(p) == Len(p) = Len(output_dir) + 1 /\ SubSeq(p, 1, Len(output_dir)) = output_dir

Touched(f, g) ==
    {p \in DOMAIN f \cup DOMAIN g :
        p \notin DOMAIN f \/ p \notin DOMAIN g \/ f[p] /= g[p]}

\* the name does not denote a file that can be written inside the sandbox
NotAFile(f, name) == name \in {"", ".."} \/ IsDir(f, Append(output_dir, name))

\* C5: whatever filename a WRITE_FILE call is given, the only files created
\* or modified are direct children of the sandbox directory; a successful
\* call writes exactly sandbox/<base name> and reports that path; a call
\* whose base name is no writable file of the sandbox fails and changes
\* nothing.
C5_Confined ==
    [][CallOf({"WRITE_FILE"}) /\ Validates(call'.input_data) =>
          LET name == PathName(call'.input_data.filename)
              r == outcome'.result
          IN  /\ outcome'.ret = "returned"
              /\ \A p \in Touched(fs, fs') : InSandbox(p)
              /\ r.success =>
                    /\ fs' = PutFile(fs, Append(output_dir, name), call'.input_data.content)
                    /\ r.metadata.filepath = Append(output_dir, name)
                    /\ ~NotAFile(fs, name)
              /\ NotAFile(fs, name) => ~r.success /\ fs' = fs]_vars

\* a filename with a directory part that climbs out of the sandbox was
\* written, and its base name is now a file of the sandbox
C5_Witness ==
    /\ call.action_type = "WRITE_FILE"
    /\ Validates(call.input_data)
    /\ Len(call.input_data.filename) >= 2
    /\ call.input_data.filename[1] = ".."
    /\ outcome.ret = "returned"
    /\ Result.success
    /\ fs[Append(output_dir, PathName(call.input_data.filename))]
          = File(call.input_data.content)

\* C6: a RUN_CODE result with success=true never has the empty string as
\* its output.
C6_OutputNeverEmpty ==
    call.action_type = "RUN_CODE" /\ outcome.ret = "returned" /\ Result.success
        => Result.output.val /= <<>>

NoneExtracted(page, n) == \A i \in 1..Min(n, Len(page)) : ~page[i].title

\* C7: when the provider answers 2xx and no record is extracted from the
\* page, SEARCH_WEB fails with the error "No search results found"; it
\* never succeeds with an empty list.
C7_EmptyIsFailure ==
    call.action_type = "SEARCH_WEB" /\ Validates(call.input_data) /\ call.env.http = "ok"
        => /\ outcome.ret = "returned"
           /\ NoneExtracted(call.env.page, call.input_data.num_results)
                 => ~Result.success /\ Result.error = Error(<<"No search results found">>)
           /\ Result.success => Result.output.val /= <<>>

\* the page has blocks, none of those examined has a title link
C7_Witness ==
    /\ call.action_type = "SEARCH_WEB"
    /\ Validates(call.input_data)
    /\ call.env.http = "ok"
    /\ call.env.page /= <<>>
    /\ NoneExtracted(call.env.page, call.input_data.num_results)
    /\ outcome.ret = "returned"

\* C8: a child is started only after validation succeeded; when the child
\* runs past the timeout, execute returns success=false with an error that
\* states the timeout the caller gave, and the child is dead by then.
C8_TimeoutReported ==
    call.action_type = "RUN_CODE" /\ outcome.child /= "none"
        => /\ Validates(call.input_data)
           /\ alive = 0
           /\ call.env.proc = "timeout"
                 => /\ IsFailure(outcome)
                    /\ Result.error.msg
                          = <<"Code execution timed out after ",
                              ToString(call.input_data.timeout), " seconds">>
                    /\ outcome.child = "killed"

C8_Witness ==
    /\ call.action_type = "RUN_CODE"
    /\ call.env.proc = "timeout"
    /\ call.input_data.timeout = 2
    /\ outcome.child = "killed"
    /\ outcome.ret = "returned"

Titled(page) == SelectSeq([i \in 1..Len(page) |-> i], LAMBDA i : page[i].title)

\* C9: blocks without a title link do not count toward the limit: the
\* output is the first min(num_results, number of titled blocks) titled
\* blocks of the page, in page order, and metadata.num_results is its
\* length.
C9_UntitledNotCounted ==
    call.action_type = "SEARCH_WEB" /\ Validates(call.input_data) /\ call.env.http = "ok"
        => LET titled == Titled(call.env.page)
               expected == SubSeq(titled, 1, Min(call.input_data.num_results, Len(titled)))
           IN  /\ outcome.ret = "returned"
               /\ expected /= <<>> =>
                     /\ Result.success
                     /\ [i \in 1..Len(Result.output.val) |-> Result.output.val[i].title]
                           = expected
                     /\ Result.metadata.num_results = Len(Result.output.val)

\* C10: when the child completes, success is true exactly when the exit
\* code is 0, metadata.exit_code is the exit code, and the placeholder is
\* the output only when the combined output is empty and the run succeeded.
C10_PlaceholderOnlyOnSuccess ==
    call.action_type = "RUN_CODE" /\ outcome.child = "exited"
        => /\ outcome.ret = "returned"
           /\ Result.success <=> call.env.returncode = 0
           /\ Result.metadata.exit_code = call.env.returncode
           /\ Result.output.val = NoOutputText
                 => /\ Combined(call.env.stdout, call.env.stderr) = <<>>
                    /\ Result.success

====
